---- MODULE Spec2Model ----
(***************************************************************************)
(* GradCalc (src/Att2GradeCalc.py): OCR text -> course title, grade        *)
(* records, overall grade; and the upload request handler around them.     *)
(*                                                                         *)
(* A Python str is a sequence of one-character strings.  A float is the    *)
(* exact rational it stands for, or the non-finite value.  A value         *)
(* returned by round(x, 2) is kept in hundredths (90.00 is 9000).          *)
(***************************************************************************)
EXTENDS Integers, Sequences, FiniteSets, TLC

VARIABLES
    text,      \* the OCR text handed to the extractors
    title,     \* result of extract_course_title
    grades,    \* the grades DataFrame: a sequence of rows
    overall,   \* result of calculate_overall_grade: [value, branch]
    stage,     \* how far the pure pipeline has run
    req,       \* upload requests: request -> its local state
    disk       \* the uploads folder: path -> file content, or NoFile

vars == <<text, title, grades, overall, stage, req, disk>>

(***************************************************************************)
(* Bounds of the checked inputs.                                           *)
(***************************************************************************)
MaxTitleChunks == 4
MaxGradeChunks == 3
MaxRecords == 3

(***************************************************************************)
(* Characters and str helpers.                                             *)
(***************************************************************************)
Upper == {"A","B","C","D","E","F","G","H","I","J","K","L","M",
          "N","O","P","Q","R","S","T","U","V","W","X","Y","Z"}
Lower == {"a","b","c","d","e","f","g","h","i","j","k","l","m",
          "n","o","p","q","r","s","t","u","v","w","x","y","z"}
Digit == {"0","1","2","3","4","5","6","7","8","9"}
\* str.splitlines breaks at "\n" (the only line boundary the inputs here use)
LineBreak == {"\n"}
\* what str.strip() and the regex class \s remove, among the inputs' characters
Whitespace == {" ", "\t"}

DigitVal(c) ==
    CASE c = "0" -> 0 [] c = "1" -> 1 [] c = "2" -> 2 [] c = "3" -> 3
      [] c = "4" -> 4 [] c = "5" -> 5 [] c = "6" -> 6 [] c = "7" -> 7
      [] c = "8" -> 8 [] c = "9" -> 9

RECURSIVE Concat(_)
Concat(ss) == IF ss = <<>> THEN <<>> ELSE Head(ss) \o Concat(Tail(ss))

RECURSIVE SplitFrom(_, _, _)
SplitFrom(s, i, cur) ==
    IF i > Len(s) THEN (IF cur = <<>> THEN <<>> ELSE <<cur>>)
    ELSE IF s[i] \in LineBreak THEN <<cur>> \o SplitFrom(s, i + 1, <<>>)
    ELSE SplitFrom(s, i + 1, Append(cur, s[i]))

\* text.splitlines()
SplitLines(s) == SplitFrom(s, 1, <<>>)

RECURSIVE LStrip(_)
LStrip(s) == IF s # <<>> /\ Head(s) \in Whitespace THEN LStrip(Tail(s)) ELSE s

RECURSIVE RStrip(_)
RStrip(s) ==
    IF s # <<>> /\ s[Len(s)] \in Whitespace
    THEN RStrip(SubSeq(s, 1, Len(s) - 1)) ELSE s

\* line.strip()
Strip(s) == RStrip(LStrip(s))

\* length of the run of characters of class cls starting at position i
RECURSIVE RunLen(_, _, _)
RunLen(s, i, cls) ==
    IF i <= Len(s) /\ s[i] \in cls THEN 1 + RunLen(s, i + 1, cls) ELSE 0

\* s[i .. i+Len(p)-1] = p
OccursAt(s, i, p) ==
    /\ i + Len(p) - 1 <= Len(s)
    /\ \A k \in 1..Len(p) : s[i + k - 1] = p[k]

\* p in s
Contains(s, p) == \E i \in 1..(Len(s) + 1) : OccursAt(s, i, p)

(***************************************************************************)
(* extract_course_title                                                    *)
(***************************************************************************)
UnknownCourse == <<"U","n","k","n","o","w","n"," ","C","o","u","r","s","e">>

\* re.match(r'^[A-Z]{2,}-\d{3}-\d{2}', line): the greedy run of capitals, then
\* the rest; a shorter run cannot help, a capital is no hyphen
MatchCourseCode(line) ==
    LET u == RunLen(line, 1, Upper) IN
    /\ u >= 2
    /\ Len(line) >= u + 7
    /\ line[u + 1] = "-"
    /\ \A k \in 2..4 : line[u + k] \in Digit
    /\ line[u + 5] = "-"
    /\ \A k \in 6..7 : line[u + k] \in Digit

TitleKeep == Upper \cup Lower \cup Digit \cup {"-", " "}

\* re.sub(r'[^A-Za-z0-9\- ]', '', s)
RemoveArtifacts(s) == SelectSeq(s, LAMBDA c : c \in TitleKeep)

RECURSIVE TitleScanLast(_, _)
TitleScanLast(lines, i) ==
    IF i < 1 THEN UnknownCourse
    ELSE IF MatchCourseCode(lines[i]) THEN RemoveArtifacts(Strip(lines[i]))
    ELSE TitleScanLast(lines, i - 1)

\* the for loop of extract_course_title, from line i on
RECURSIVE TitleScan(_, _)
TitleScan(lines, i) ==
    IF i > Len(lines) THEN UnknownCourse
    ELSE IF MatchCourseCode(lines[i]) THEN RemoveArtifacts(Strip(lines[i]))
    ELSE TitleScan(lines, i + 1)

extract_course_title_last(t) ==
    LET lines == SplitLines(t) IN TitleScanLast(lines, Len(lines))

extract_course_title(t) == TitleScan(SplitLines(t), 1)

(***************************************************************************)
(* extract_assignments_and_grades                                          *)
(***************************************************************************)
HEADERS == {<<"G","r","a","d","e"," ","t","e","m">>,
            <<"P","o","i","n","t","s">>,
            <<"C","o","m","m","e","n","t","s">>,
            <<"G","r","a","d","e","s"," ","-">>}

NoMatch == [found |-> FALSE, start |-> 0, g1 |-> <<>>, g2 |-> <<>>, end |-> 0]

\* the regex (\d+)/(\d+)\s*(?:\d+%)? tried at start position s: every
\* quantifier is greedy and the first try of each succeeds or the start fails
GradeMatchAt(line, s) ==
    LET d1 == RunLen(line, s, Digit)
        t  == s + d1 + 1
        d2 == RunLen(line, t, Digit)
        p  == t + d2
        ws == RunLen(line, p, Whitespace)
        d3 == RunLen(line, p + ws, Digit)
        pct == d3 >= 1 /\ p + ws + d3 <= Len(line) /\ line[p + ws + d3] = "%"
    IN  IF d1 >= 1 /\ s + d1 <= Len(line) /\ line[s + d1] = "/" /\ d2 >= 1
        THEN [found |-> TRUE, start |-> s,
              g1 |-> SubSeq(line, s, s + d1 - 1),
              g2 |-> SubSeq(line, t, p - 1),
              end |-> IF pct THEN p + ws + d3 ELSE p + ws - 1]
        ELSE NoMatch

\* re.search: the match at the leftmost start position that has one
RECURSIVE GradeSearch(_, _)
GradeSearch(line, s) ==
    IF s > Len(line) THEN NoMatch
    ELSE IF GradeMatchAt(line, s).found THEN GradeMatchAt(line, s)
    ELSE GradeSearch(line, s + 1)

\* int of a run of decimal digits, as float() reads it
RECURSIVE NumVal(_)
NumVal(ds) ==
    IF ds = <<>> THEN 0
    ELSE 10 * NumVal(SubSeq(ds, 1, Len(ds) - 1)) + DigitVal(ds[Len(ds)])

\* s.replace(p, ''), p not empty: every occurrence, left to right
RECURSIVE RemoveAll(_, _, _)
RemoveAll(s, i, p) ==
    IF i > Len(s) THEN <<>>
    ELSE IF OccursAt(s, i, p) THEN RemoveAll(s, i + Len(p), p)
    ELSE <<s[i]>> \o RemoveAll(s, i + 1, p)

IsHeaderNever(line) == FALSE

\* any(header in line for header in [...])
IsHeader(line) == \E h \in HEADERS : Contains(line, h)

AllGrades == "All Grades"

\* the entry appended for a line whose search matched with m
Entry(line, m) ==
    [Section |-> AllGrades,
     Item |-> Strip(RemoveAll(line, 1, SubSeq(line, m.start, m.end))),
     Achieved |-> NumVal(m.g1),
     Total |-> NumVal(m.g2),
     Weight |-> [k |-> "num", v |-> 100]]

\* the for loop over the lines, from line i on, with the entries so far
RECURSIVE GradeScan(_, _, _)
GradeScan(lines, i, acc) ==
    IF i > Len(lines) THEN acc
    ELSE LET line == Strip(lines[i])
             m == GradeSearch(line, 1)
         IN  IF line = <<>> \/ IsHeader(line) THEN GradeScan(lines, i + 1, acc)
             ELSE IF m.found
                  THEN GradeScan(lines, i + 1, Append(acc, Entry(line, m)))
                  ELSE GradeScan(lines, i + 1, acc)

extract_assignments_and_grades(t) == GradeScan(SplitLines(t), 1, <<>>)

(***************************************************************************)
(* calculate_overall_grade                                                 *)
(*                                                                         *)
(* A Weight cell is [k, v]: a number v (k = "num"), NaN (k = "nan", the    *)
(* null of a float column) or None (k = "none", the null of an object      *)
(* column).  A float accumulator is [nan, n, d]: NaN, or the rational n/d. *)
(***************************************************************************)
Num(v) == [k |-> "num", v |-> v]
NaNCell == [k |-> "nan", v |-> 0]
NoneCell == [k |-> "none", v |-> 0]

\* Series.isna() of one cell
IsNa(w) == w.k # "num"

RECURSIVE GCD(_, _)
GCD(a, b) == IF b = 0 THEN a ELSE GCD(b, a % b)

\* the rational n/d, d > 0, in lowest terms
Rat(n, d) == [nan |-> FALSE, n |-> n \div GCD(n, d), d |-> d \div GCD(n, d)]
NaNFloat == [nan |-> TRUE, n |-> 0, d |-> 1]

RatAdd(x, y) ==
    IF x.nan \/ y.nan THEN NaNFloat ELSE Rat(x.n * y.d + y.n * x.d, x.d * y.d)

RatMul(x, y) ==
    IF x.nan \/ y.nan THEN NaNFloat ELSE Rat(x.n * y.n, x.d * y.d)

\* a Weight cell that is not None, read as a float
CellFloat(w) == IF w.k = "nan" THEN NaNFloat ELSE Rat(w.v, 1)

\* x > 0 for a float: false for NaN
Positive(x) == ~x.nan /\ x.n > 0

\* round(x, 2) of a non-negative float, in hundredths: to the nearest, a tie
\* to the even hundredth; a non-finite x stays non-finite, written -1
Round2(x) ==
    IF x.nan THEN 0 - 1
    ELSE LET q == (100 * x.n) \div x.d
             r == (100 * x.n) % x.d
         IN  IF 2 * r < x.d THEN q
             ELSE IF 2 * r > x.d THEN q + 1
             ELSE IF q % 2 = 0 THEN q ELSE q + 1

RECURSIVE SumOf(_, _)
SumOf(rows, f) ==
    IF rows = <<>> THEN 0 ELSE rows[1][f] + SumOf(Tail(rows), f)

\* grades_df['Section'].unique(): the sections in order of first appearance
RECURSIVE UniqueSections(_, _)
UniqueSections(rows, seen) ==
    IF rows = <<>> THEN seen
    ELSE IF \E i \in 1..Len(seen) : seen[i] = rows[1].Section
         THEN UniqueSections(Tail(rows), seen)
         ELSE UniqueSections(Tail(rows), Append(seen, rows[1].Section))

SectionData(df, section) == SelectSeq(df, LAMBDA r : r.Section = section)


SectionWeightMissing(data) == NoneCell

\* section_data['Weight'].iloc[0] if not section_data['Weight'].isna().all()
\* else None
SectionWeight(data) ==
    IF ~(\A i \in 1..Len(data) : IsNa(data[i].Weight))
    THEN data[1].Weight ELSE NoneCell

PercentageNoScale(data) ==
    IF SumOf(data, "Total") = 0 THEN NaNFloat
    ELSE Rat(SumOf(data, "Achieved"), SumOf(data, "Total"))

\* (section_achieved / section_total) * 100; the sums are numpy floats, whose
\* division by zero gives inf or nan and no exception: the non-finite value
Percentage(data) ==
    IF SumOf(data, "Total") = 0 THEN NaNFloat
    ELSE Rat(SumOf(data, "Achieved") * 100, SumOf(data, "Total"))

RECURSIVE SectionGradesUnguarded(_, _)
SectionGradesUnguarded(df, sections) ==
    IF sections = <<>> THEN <<>>
    ELSE LET data == SectionData(df, Head(sections))
         IN  <<[section |-> Head(sections),
                percentage |-> Percentage(data),
                weight |-> SectionWeight(data)]>>
             \o SectionGradesUnguarded(df, Tail(sections))

\* the first loop: section_grades, in insertion order
RECURSIVE SectionGrades(_, _)
SectionGrades(df, sections) ==
    IF sections = <<>> THEN <<>>
    ELSE LET data == SectionData(df, Head(sections))
             rest == SectionGrades(df, Tail(sections))
         IN  IF SumOf(data, "Total") > 0
             THEN <<[section |-> Head(sections),
                     percentage |-> Percentage(data),
                     weight |-> SectionWeight(data)]>> \o rest
             ELSE rest

\* the second loop: weighted_sum and total_weight over the sections whose
\* weight is not None
RECURSIVE WeightedSums(_, _)
WeightedSums(sg, acc) ==
    IF sg = <<>> THEN acc
    ELSE LET g == Head(sg) IN
         IF g.weight.k # "none"
         THEN WeightedSums(Tail(sg),
                [weighted_sum |-> RatAdd(acc.weighted_sum,
                     RatMul(g.percentage, RatMul(CellFloat(g.weight), Rat(1, 100)))),
                 total_weight |-> RatAdd(acc.total_weight, CellFloat(g.weight))])
         ELSE WeightedSums(Tail(sg), acc)

\* lines 144-147
Fallback(df) ==
    LET total_achieved == SumOf(df, "Achieved")
        total_possible == SumOf(df, "Total")
    IN  [value |-> IF total_possible > 0
                   THEN Round2(Rat(total_achieved * 100, total_possible)) ELSE 0,
         branch |-> "fallback"]

calculate_overall_grade(df) ==
    IF df = <<>> THEN [value |-> 0, branch |-> "empty"]
    ELSE LET sg == SectionGrades(df, UniqueSections(df, <<>>))
             ws == WeightedSums(sg, [weighted_sum |-> Rat(0, 1),
                                     total_weight |-> Rat(0, 1)])
         IN  IF (\E i \in 1..Len(sg) : sg[i].weight.k # "none")
                /\ Positive(ws.total_weight)
             THEN [value |-> Round2(RatMul(ws.weighted_sum,
                                 Rat(100 * ws.total_weight.d, ws.total_weight.n))),
                   branch |-> "weighted"]
             ELSE Fallback(df)

(***************************************************************************)
(* The extractors and the aggregator applied to bounded inputs.            *)
(***************************************************************************)
\* every text made of at most n chunks
Texts(chunks, n) ==
    {Concat(cs) : cs \in UNION {[1..k -> chunks] : k \in 0..n}}

TitleChunks ==
    {<<"M","I","S","-","3","5","3","-","0","1">>,
     <<"C","S","-","1","0","1","-","0","2">>,
     <<"X","-","3","5","3","-","0","1">>,
     <<"M">>, <<" ">>, <<"!">>, <<"\n">>, <<"a">>}

GradeChunks ==
    {<<"1","8","/","2","0">>, <<"9","/","1","0">>, <<"2","2","/","2","0">>,
     <<"5","/","0">>, <<"1">>, <<"/">>, <<" ">>, <<"\n">>,
     <<" ","9","0","%">>, <<"H","w">>} \cup HEADERS

NoOverall == [value |-> 0, branch |-> "none"]

Idle == /\ req = <<>>
        /\ disk = <<>>

InitTitle ==
    /\ text \in Texts(TitleChunks, MaxTitleChunks)
    /\ title = <<>>
    /\ grades = <<>>
    /\ overall = NoOverall
    /\ stage = "text"
    /\ Idle

InitGrades ==
    /\ text \in Texts(GradeChunks, MaxGradeChunks)
    /\ title = <<>>
    /\ grades = <<>>
    /\ overall = NoOverall
    /\ stage = "text"
    /\ Idle

ExtractCourseTitle ==
    /\ stage = "text"
    /\ title' = extract_course_title(text)
    /\ stage' = "titled"
    /\ UNCHANGED <<text, grades, overall, req, disk>>

ExtractGrades ==
    /\ stage = "text"
    /\ grades' = extract_assignments_and_grades(text)
    /\ stage' = "parsed"
    /\ UNCHANGED <<text, title, overall, req, disk>>

CalculateOverall ==
    /\ stage = "parsed"
    /\ overall' = calculate_overall_grade(grades)
    /\ stage' = "graded"
    /\ UNCHANGED <<text, title, grades, req, disk>>

\* grade sets richer than the parser's: two sections, null weights
AggSections == {"A", "B"}
AggPoints == {<<4, 5>>, <<5, 5>>, <<5, 0>>}
AggWeights == {Num(0), Num(50), NaNCell, NoneCell}

AggRows ==
    {[Section |-> sec, Item |-> <<>>, Achieved |-> p[1], Total |-> p[2],
      Weight |-> w] : sec \in AggSections, p \in AggPoints, w \in AggWeights}

InitAggregate ==
    /\ grades \in UNION {[1..k -> AggRows] : k \in 0..MaxRecords}
    /\ text = <<>>
    /\ title = <<>>
    /\ overall = NoOverall
    /\ stage = "parsed"
    /\ Idle

NextTitle == ExtractCourseTitle

NextAggregate == CalculateOverall

SpecAggregate == InitAggregate /\ [][NextAggregate]_vars

NextGrades == ExtractGrades \/ CalculateOverall

SpecTitle == InitTitle /\ [][NextTitle]_vars

SpecGrades == InitGrades /\ [][NextGrades]_vars

(***************************************************************************)
(* upload_file and download_file: two requests served concurrently over    *)
(* the one uploads folder.  Every access to the folder is a step of its    *)
(* own; the steps of the two requests interleave freely.                   *)
(***************************************************************************)
Requests == {"r1", "r2"}

UPLOAD_FOLDER == "uploads/"
ALLOWED_EXTENSIONS == {<<"p","d","f">>}
MaxFilenameLen == 255

UpperSeq == <<"A","B","C","D","E","F","G","H","I","J","K","L","M",
              "N","O","P","Q","R","S","T","U","V","W","X","Y","Z">>
LowerSeq == <<"a","b","c","d","e","f","g","h","i","j","k","l","m",
              "n","o","p","q","r","s","t","u","v","w","x","y","z">>

\* str.lower()
ToLower(s) ==
    [i \in 1..Len(s) |->
        IF s[i] \in Upper
        THEN LowerSeq[CHOOSE k \in 1..26 : UpperSeq[k] = s[i]] ELSE s[i]]

\* position of the last "." of s, 0 when it has none
RECURSIVE LastDot(_, _)
LastDot(s, i) == IF i < 1 THEN 0 ELSE IF s[i] = "." THEN i ELSE LastDot(s, i - 1)

\* '.' in filename and filename.rsplit('.', 1)[1].lower() in ALLOWED_EXTENSIONS
allowed_file(filename) ==
    LET d == LastDot(filename, Len(filename)) IN
    /\ d > 0
    /\ ToLower(SubSeq(filename, d + 1, Len(filename))) \in ALLOWED_EXTENSIONS

SanitizeKeep == Upper \cup Lower \cup Digit \cup {"_", "-"}

\* re.sub(r'[^A-Za-z0-9_\-]', '', filename)[:255]
sanitize_filename(filename) ==
    LET kept == SelectSeq(filename, LAMBDA c : c \in SanitizeKeep)
    IN  SubSeq(kept, 1, IF Len(kept) < MaxFilenameLen THEN Len(kept)
                        ELSE MaxFilenameLen)

RECURSIVE StripChars(_, _)
StripChars(s, cs) ==
    IF s # <<>> /\ Head(s) \in cs THEN StripChars(Tail(s), cs)
    ELSE IF s # <<>> /\ s[Len(s)] \in cs
         THEN StripChars(SubSeq(s, 1, Len(s) - 1), cs)
         ELSE s

\* "_".join(s.split()): runs of whitespace inside s become one "_", those at
\* its ends go
RECURSIVE JoinWords(_)
JoinWords(s) ==
    IF s = <<>> THEN <<>>
    ELSE IF Head(s) \in Whitespace
         THEN (IF LStrip(s) = <<>> THEN <<>> ELSE <<"_">> \o JoinWords(LStrip(s)))
         ELSE <<Head(s)>> \o JoinWords(Tail(s))

\* werkzeug's secure_filename on ASCII names: path separators become spaces,
\* the words are joined with "_", characters outside [A-Za-z0-9_.-] go, and
\* "." and "_" are stripped from both ends
secure_filename(filename) ==
    LET spaced == [i \in 1..Len(filename) |->
                      IF filename[i] = "/" THEN " " ELSE filename[i]]
        joined == JoinWords(LStrip(spaced))
        kept == SelectSeq(joined, LAMBDA c : c \in SanitizeKeep \cup {"."})
    IN  StripChars(kept, {".", "_"})

\* os.path.join(app.config['UPLOAD_FOLDER'], name)
PathOf(name) == <<UPLOAD_FOLDER>> \o name

\* f'grades_{sanitize_filename(filename[:-4])}.xlsx'
ExcelName(filename) ==
    <<"g","r","a","d","e","s","_">>
    \o sanitize_filename(SubSeq(filename, 1, Len(filename) - 4))
    \o <<".","x","l","s","x">>

\* filename.endswith('.xlsx')
EndsWithXlsx(name) ==
    /\ Len(name) >= 5
    /\ SubSeq(name, Len(name) - 4, Len(name)) = <<".","x","l","s","x">>

\* the uploads the requests may carry: the names sent, and the documents
UploadNames ==
    {<<"a",".","p","d","f">>, <<"/","a",".","p","d","f">>,
     <<"a","b",".","p","d","f">>, <<"a",".","b",".","P","D","F">>,
     <<"a",".","t","x","t">>, <<>>}

\* the OCR text of a readable document; a document fitz cannot open has none
DocTexts == {<<"H","w"," ","1","8","/","2","0">>, <<"H","w">>}

Documents ==
    {[ok |-> TRUE, text |-> t] : t \in DocTexts} \cup {[ok |-> FALSE, text |-> <<>>]}

NoFile == [kind |-> "none", owner |-> "-", ok |-> FALSE, text |-> <<>>, rows |-> <<>>]

NoDownload == [status |-> 0, owner |-> "-"]

Paths ==
    {PathOf(secure_filename(n)) : n \in UploadNames}
    \cup {PathOf(ExcelName(secure_filename(n))) : n \in UploadNames}

IdleRequest ==
    [pc |-> "idle", hasfile |-> FALSE, filename |-> <<>>, doc |-> [ok |-> FALSE, text |-> <<>>],
     secured |-> <<>>, saved |-> FALSE, text |-> <<>>, readFrom |-> "-",
     parsed |-> FALSE, title |-> <<>>, grades |-> <<>>, wrote |-> FALSE,
     overall |-> NoOverall, outcome |-> "", download |-> NoDownload]

InitUpload ==
    /\ req = [r \in Requests |-> IdleRequest]
    /\ disk = [p \in Paths |-> NoFile]
    /\ text = <<>>
    /\ title = <<>>
    /\ grades = <<>>
    /\ overall = NoOverall
    /\ stage = "serving"

Pure == UNCHANGED <<text, title, grades, overall, stage>>

\* lines 151-169: the POST arrives; the checks before the file is saved
Receive(r) ==
    /\ req[r].pc = "idle"
    /\ \/ /\ req' = [req EXCEPT ![r].pc = "done",
                                ![r].outcome = "No file uploaded"]
       \/ \E n \in UploadNames, d \in Documents :
            req' = [req EXCEPT
                ![r].hasfile = TRUE, ![r].filename = n, ![r].doc = d,
                ![r].secured = IF n # <<>> /\ allowed_file(n)
                               THEN secure_filename(n) ELSE <<>>,
                ![r].pc = IF n # <<>> /\ allowed_file(n) THEN "save" ELSE "done",
                ![r].outcome = IF n = <<>> THEN "No file selected"
                               ELSE IF allowed_file(n) THEN ""
                               ELSE "Invalid file type"]
    /\ UNCHANGED disk
    /\ Pure

\* line 171: file.save(pdf_path)
Save(r) ==
    /\ req[r].pc = "save"
    /\ disk' = [disk EXCEPT ![PathOf(req[r].secured)] =
                   [kind |-> "pdf", owner |-> r, ok |-> req[r].doc.ok,
                    text |-> req[r].doc.text, rows |-> <<>>]]
    /\ req' = [req EXCEPT ![r].pc = "extract", ![r].saved = TRUE]
    /\ Pure

\* line 176: extract_text_from_scanned_pdf(pdf_path) reads the file at the
\* path; fitz.open raises when there is none or it is no readable PDF
ExtractText(r) ==
    /\ req[r].pc = "extract"
    /\ LET f == disk[PathOf(req[r].secured)] IN
       IF f.kind = "pdf" /\ f.ok
       THEN req' = [req EXCEPT ![r].pc = "parse", ![r].text = f.text,
                               ![r].readFrom = f.owner]
       ELSE req' = [req EXCEPT ![r].pc = "except"]
    /\ UNCHANGED disk
    /\ Pure

\* lines 181-197: title, grades, and the return when there are none
Parse(r) ==
    /\ req[r].pc = "parse"
    /\ LET g == extract_assignments_and_grades(req[r].text) IN
       req' = [req EXCEPT
           ![r].title = extract_course_title(req[r].text),
           ![r].grades = g,
           ![r].parsed = TRUE,
           ![r].outcome = IF g = <<>> THEN "No grades found in the PDF" ELSE "",
           ![r].pc = IF g = <<>> THEN "finally" ELSE "excel"]
    /\ UNCHANGED disk
    /\ Pure

\* lines 200-203: save_to_excel writes the file, or raises
SaveExcel(r) ==
    /\ req[r].pc = "excel"
    /\ \/ /\ disk' = [disk EXCEPT ![PathOf(ExcelName(req[r].secured))] =
                         [kind |-> "xlsx", owner |-> r, ok |-> TRUE,
                          text |-> <<>>, rows |-> req[r].grades]]
          /\ req' = [req EXCEPT ![r].pc = "respond", ![r].wrote = TRUE]
       \/ /\ req' = [req EXCEPT ![r].pc = "except"]
          /\ UNCHANGED disk
    /\ Pure

\* lines 207-218: the overall grade and the results page
Respond(r) ==
    /\ req[r].pc = "respond"
    /\ req' = [req EXCEPT ![r].overall = calculate_overall_grade(req[r].grades),
                          ![r].outcome = "results",
                          ![r].pc = "finally"]
    /\ UNCHANGED disk
    /\ Pure

\* lines 220-225: except Exception
Except(r) ==
    /\ req[r].pc = "except"
    /\ req' = [req EXCEPT ![r].outcome = "Error processing file",
                          ![r].pc = "finally"]
    /\ UNCHANGED disk
    /\ Pure

\* line 229: if os.path.exists(pdf_path)
FinallyExists(r) ==
    /\ req[r].pc = "finally"
    /\ req' = [req EXCEPT ![r].pc =
                  IF disk[PathOf(req[r].secured)].kind # "none"
                  THEN "remove" ELSE "done"]
    /\ UNCHANGED disk
    /\ Pure

FinallyRemoveNothing(r) ==
    /\ req[r].pc = "remove"
    /\ req' = [req EXCEPT ![r].pc = "done"]
    /\ UNCHANGED disk
    /\ Pure

\* line 230: os.remove(pdf_path); FileNotFoundError leaves the finally block
\* and replaces the response
FinallyRemove(r) ==
    /\ req[r].pc = "remove"
    /\ IF disk[PathOf(req[r].secured)].kind # "none"
       THEN /\ disk' = [disk EXCEPT ![PathOf(req[r].secured)] = NoFile]
            /\ req' = [req EXCEPT ![r].pc = "done"]
       ELSE /\ req' = [req EXCEPT ![r].pc = "done",
                                  ![r].outcome = "Internal Server Error"]
            /\ UNCHANGED disk
    /\ Pure

\* download_file(filename), asked by the client of a finished request
Download(r) ==
    /\ req[r].pc = "done"
    /\ \E name \in {req[r].secured, ExcelName(req[r].secured)} :
          req' = [req EXCEPT
              ![r].pc = "downloaded",
              ![r].download =
                  IF ~EndsWithXlsx(name) THEN [status |-> 400, owner |-> "-"]
                  ELSE IF PathOf(name) \notin DOMAIN disk
                          \/ disk[PathOf(name)].kind = "none"
                       THEN [status |-> 404, owner |-> "-"]
                       ELSE [status |-> 200, owner |-> disk[PathOf(name)].owner]]
    /\ UNCHANGED disk
    /\ Pure

NextUpload ==
    \E r \in Requests :
        \/ Receive(r) \/ Save(r) \/ ExtractText(r) \/ Parse(r) \/ SaveExcel(r)
        \/ Respond(r) \/ Except(r) \/ FinallyExists(r) \/ FinallyRemove(r)
        \/ Download(r)

SpecUpload == InitUpload /\ [][NextUpload]_vars

(***************************************************************************)
(* Properties of extract_course_title (SpecTitle).                         *)
(***************************************************************************)
\* the line begins with two or more capitals, a hyphen, three digits, a
\* hyphen and two digits
BeginsWithCourseCode(l) ==
    \E u \in 2..Len(l) :
        /\ Len(l) >= u + 7
        /\ \A j \in 1..u : l[j] \in Upper
        /\ l[u + 1] = "-" /\ l[u + 5] = "-"
        /\ \A j \in {u + 2, u + 3, u + 4, u + 6, u + 7} : l[j] \in Digit

CodeLines == {i \in 1..Len(SplitLines(text)) : BeginsWithCourseCode(SplitLines(text)[i])}

FirstCodeLine ==
    SplitLines(text)[CHOOSE i \in CodeLines : \A j \in CodeLines : i <= j]

\* l without its characters that are no letter, digit, hyphen or space
OnlyTitleChars(l) ==
    SelectSeq(l, LAMBDA c : c \in Upper \cup Lower \cup Digit \cup {"-", " "})

\* l without its leading and trailing whitespace
Trimmed(l) ==
    LET inner == {i \in 1..Len(l) : l[i] \notin Whitespace}
    IN  IF inner = {} THEN <<>>
        ELSE SubSeq(l, CHOOSE i \in inner : \A j \in inner : i <= j,
                       CHOOSE i \in inner : \A j \in inner : i >= j)

\* C6 as stated: the title is the first line that begins with a course code,
\* with every character other than letters, digits, hyphens and spaces
\* removed, and "Unknown Course" when no line does.
C6_TitleAsStated ==
    stage = "titled" =>
        title = IF CodeLines = {} THEN UnknownCourse
                ELSE OnlyTitleChars(FirstCodeLine)

\* C6 amended: the title is the first line that begins with a course code,
\* first trimmed of leading and trailing whitespace and then with every
\* character other than letters, digits, hyphens and spaces removed, and
\* "Unknown Course" when no line does.
C6_Title ==
    stage = "titled" =>
        title = IF CodeLines = {} THEN UnknownCourse
                ELSE OnlyTitleChars(Trimmed(FirstCodeLine))

\* two different lines begin with a course code, and the first of them ends
\* in whitespace, which the title lost
C6_Witness ==
    /\ stage = "titled"
    /\ \E i, j \in CodeLines : SplitLines(text)[i] # SplitLines(text)[j]
    /\ FirstCodeLine[Len(FirstCodeLine)] \in Whitespace
    /\ title = OnlyTitleChars(Trimmed(FirstCodeLine))

(***************************************************************************)
(* Properties of extract_assignments_and_grades (SpecGrades).              *)
(***************************************************************************)
\* position of a slash of l with a digit on both sides
GradeSlashes(l) ==
    {m \in 2..(Len(l) - 1) :
        l[m] = "/" /\ l[m - 1] \in Digit /\ l[m + 1] \in Digit}

FirstSlash(l) == CHOOSE m \in GradeSlashes(l) : \A k \in GradeSlashes(l) : m <= k

\* value of the decimal numeral l[a..b]
RECURSIVE Numeral(_, _, _)
Numeral(l, a, b) ==
    IF a > b THEN 0
    ELSE DigitVal(l[a]) * 10 ^ (b - a) + Numeral(l, a + 1, b)

\* the integer that ends right before position m, and the one that starts
\* right after it
IntBefore(l, m) ==
    Numeral(l, CHOOSE a \in 1..(m - 1) :
                   /\ \A j \in a..(m - 1) : l[j] \in Digit
                   /\ (a = 1 \/ l[a - 1] \notin Digit), m - 1)

IntAfter(l, m) ==
    Numeral(l, m + 1, CHOOSE b \in (m + 1)..Len(l) :
                   /\ \A j \in (m + 1)..b : l[j] \in Digit
                   /\ (b = Len(l) \/ l[b + 1] \notin Digit))

\* a trimmed line that yields a record: not empty, no header substring in
\* it, an integer/integer pattern in it
IsDataLine(l) ==
    /\ l # <<>>
    /\ \A h \in HEADERS :
          \A i \in 1..(Len(l) - Len(h) + 1) : SubSeq(l, i, i + Len(h) - 1) # h
    /\ GradeSlashes(l) # {}

TrimmedLines == [i \in 1..Len(SplitLines(text)) |-> Trimmed(SplitLines(text)[i])]

DataLines == SelectSeq(TrimmedLines, IsDataLine)

\* C1: one record per line that, trimmed, is not empty, holds no header
\* substring and holds an integer/integer pattern, none for any other line;
\* the records are in line order, each with achieved = the first integer of
\* the pattern, total = the second, section "All Grades" and weight 100.0.
C1_Records ==
    stage \in {"parsed", "graded"} =>
        /\ Len(grades) = Len(DataLines)
        /\ \A i \in 1..Len(grades) :
              LET l == DataLines[i] IN
              /\ grades[i].Achieved = IntBefore(l, FirstSlash(l))
              /\ grades[i].Total = IntAfter(l, FirstSlash(l))
              /\ grades[i].Section = "All Grades"
              /\ grades[i].Weight = Num(100)

\* two lines gave two different records, in line order
C1_Witness ==
    /\ stage = "parsed"
    /\ Len(grades) = 2
    /\ grades[1].Achieved # grades[2].Achieved
    /\ grades[1].Achieved = IntBefore(DataLines[1], FirstSlash(DataLines[1]))

\* C2: every record of the parser has total > 0.
C2_TotalPositive ==
    stage \in {"parsed", "graded"} =>
        \A i \in 1..Len(grades) : grades[i].Total > 0

(***************************************************************************)
(* Properties of calculate_overall_grade on the parser's records           *)
(* (SpecGrades).                                                           *)
(***************************************************************************)
\* v hundredths is 100 * a / t rounded to 2 decimals: nearest, a tie to even
IsRoundedRatio(v, a, t) ==
    LET diff == v * t - 10000 * a
        dist == IF diff < 0 THEN 0 - diff ELSE diff
    IN  /\ 2 * dist <= t
        /\ (2 * dist = t => v % 2 = 0)

Points == [i \in 1..Len(grades) |-> <<grades[i].Achieved, grades[i].Total>>]

\* C3: with a positive sum of totals, the overall grade of the parser's
\* records is 100 * sum(achieved) / sum(total) rounded to 2 decimals, not
\* clamped: 18/20 gives 90.00, 22/20 gives 110.00, 18/20 with 9/10 gives 90.00.
C3_Overall ==
    stage = "graded" =>
        /\ SumOf(grades, "Total") > 0 =>
              IsRoundedRatio(overall.value, SumOf(grades, "Achieved"),
                                            SumOf(grades, "Total"))
        /\ Points = <<(<<18, 20>>)>> => overall.value = 9000
        /\ Points = <<(<<22, 20>>)>> => overall.value = 11000
        /\ Points = <<(<<18, 20>>), (<<9, 10>>)>> => overall.value = 9000

\* the overall grade of two records, above 100
C3_Witness ==
    /\ stage = "graded"
    /\ Len(grades) = 2
    /\ \A i \in 1..2 : grades[i].Total > 0
    /\ overall.value > 10000
    /\ IsRoundedRatio(overall.value, SumOf(grades, "Achieved"),
                                     SumOf(grades, "Total"))

\* C10 as stated: on the parser's records the overall grade never comes from
\* the weighted branch.
C10_NeverWeighted ==
    stage = "graded" => overall.branch # "weighted"

\* C10 amended: on the parser's records the overall grade comes from the
\* weighted branch exactly when the sum of totals is positive, and is then
\* equal to the unweighted ratio 100 * sum(achieved) / sum(total) rounded;
\* the fallback returns only when the records' totals sum to 0.
C10_Branch ==
    stage = "graded" =>
        /\ overall.branch = "weighted" <=> SumOf(grades, "Total") > 0
        /\ overall.branch = "fallback" <=>
              (grades # <<>> /\ SumOf(grades, "Total") = 0)
        /\ overall.branch = "weighted" =>
              IsRoundedRatio(overall.value, SumOf(grades, "Achieved"),
                                            SumOf(grades, "Total"))

\* the weighted branch returned the grade of two records
C10_Witness ==
    /\ stage = "graded"
    /\ Len(grades) = 2
    /\ overall.branch = "weighted"
    /\ overall.value = 9000

(***************************************************************************)
(* Properties of calculate_overall_grade on any grade set (SpecAggregate). *)
(***************************************************************************)
SectionsOf(df) == {df[i].Section : i \in 1..Len(df)}

RowsOf(df, sec) == SelectSeq(df, LAMBDA r : r.Section = sec)

\* C4: the overall grade is 0 for the empty grade set and 0 whenever the
\* totals of all records sum to 0, it is always a finite number, and a
\* section whose totals sum to 0 is not among the section percentages.
C4_ZeroTotals ==
    /\ stage = "graded" =>
          /\ grades = <<>> => overall.value = 0
          /\ SumOf(grades, "Total") = 0 => overall.value = 0
          /\ overall.value >= 0
    /\ LET sg == SectionGrades(grades, UniqueSections(grades, <<>>)) IN
       \A i \in 1..Len(sg) :
          /\ SumOf(RowsOf(grades, sg[i].section), "Total") > 0
          /\ ~sg[i].percentage.nan

\* a grade set with a zero-total section beside a section that has points,
\* graded from the other section alone
C4_Witness ==
    /\ stage = "graded"
    /\ \E a, b \in SectionsOf(grades) :
          /\ SumOf(RowsOf(grades, a), "Total") = 0
          /\ SumOf(RowsOf(grades, b), "Total") > 0
          /\ RowsOf(grades, b)[1].Weight = Num(50)
          /\ IsRoundedRatio(overall.value, SumOf(RowsOf(grades, b), "Achieved"),
                                           SumOf(RowsOf(grades, b), "Total"))
    /\ overall.branch = "weighted"

\* the sections with a positive total whose first record has a weight
WeightedSections(df) ==
    {sec \in SectionsOf(df) :
        /\ SumOf(RowsOf(df, sec), "Total") > 0
        /\ RowsOf(df, sec)[1].Weight.k = "num"}

FirstWeight(df, sec) == RowsOf(df, sec)[1].Weight.v

\* sum over the sections S of percentage * weight / 100, with
\* percentage = 100 * achieved / total of the section
RECURSIVE WeightedPercentages(_, _)
WeightedPercentages(S, df) ==
    IF S = {} THEN Rat(0, 1)
    ELSE LET sec == CHOOSE x \in S : TRUE
         IN  RatAdd(Rat(SumOf(RowsOf(df, sec), "Achieved") * FirstWeight(df, sec),
                        SumOf(RowsOf(df, sec), "Total")),
                    WeightedPercentages(S \ {sec}, df))

\* sum over the sections S of the weight
RECURSIVE Weights(_, _)
Weights(S, df) ==
    IF S = {} THEN 0
    ELSE LET sec == CHOOSE x \in S : TRUE
         IN  FirstWeight(df, sec) + Weights(S \ {sec}, df)

\* C5: when some section with a positive total has a non-null weight (the
\* weight of its first record) and those weights sum to more than 0, the
\* overall grade is 100 * sum(percentage_i * weight_i / 100) / sum(weight_i)
\* over those sections, rounded to 2 decimals; sections whose weight is null
\* are in neither sum.
C5_Weighted ==
    stage = "graded" =>
        LET S == WeightedSections(grades)
            num == WeightedPercentages(S, grades)
            den == Weights(S, grades)
        IN  (S # {} /\ den > 0) =>
                IsRoundedRatio(overall.value, num.n, num.d * den)

(***************************************************************************)
(* Properties of the upload requests (SpecUpload).                         *)
(***************************************************************************)
Finished(r) == req[r].pc \in {"done", "downloaded"}

\* C7: a request whose parsing gave zero records ends in the "No grades
\* found" outcome, with no spreadsheet written and no overall grade computed.
C7_NoGradesOutcome ==
    \A r \in Requests :
        (Finished(r) /\ req[r].parsed /\ req[r].grades = <<>>) =>
            /\ req[r].outcome = "No grades found in the PDF"
            /\ ~req[r].wrote
            /\ req[r].overall = NoOverall

\* what is left of C7 under concurrent uploads: the outcome is "No grades
\* found" unless the clean-up lost the race for the shared document path
C7_NoGradesUnlessRaced ==
    \A r \in Requests :
        (Finished(r) /\ req[r].parsed /\ req[r].grades = <<>>) =>
            /\ req[r].outcome \in {"No grades found in the PDF",
                                   "Internal Server Error"}
            /\ ~req[r].wrote
            /\ req[r].overall = NoOverall

\* C8 as stated: once a request that saved a document has finished, neither
\* that document nor a spreadsheet the request generated is on disk.
C8_NothingRemains ==
    \A r \in Requests :
        (Finished(r) /\ req[r].saved) =>
            \A p \in Paths : disk[p].owner # r

\* C8 amended: once a request that saved a document has finished, that
\* document is no longer on disk; the spreadsheet the request wrote is not
\* deleted: a spreadsheet stays at its path, for download_file to serve.
C8_DocumentRemoved ==
    \A r \in Requests :
        (Finished(r) /\ req[r].saved) =>
            /\ \A p \in Paths : ~(disk[p].kind = "pdf" /\ disk[p].owner = r)
            /\ req[r].wrote =>
                  disk[PathOf(ExcelName(req[r].secured))].kind = "xlsx"
            /\ (req[r].wrote /\ req[r].download.status # 0
                /\ req[r].download.status # 400) => req[r].download.status = 200

\* a request showed its results, removed its document and then had its
\* spreadsheet served
C8_Witness ==
    \E r \in Requests :
        /\ req[r].pc = "downloaded"
        /\ req[r].saved /\ req[r].wrote
        /\ req[r].outcome = "results"
        /\ disk[PathOf(req[r].secured)] = NoFile
        /\ disk[PathOf(ExcelName(req[r].secured))].owner = r
        /\ req[r].download = [status |-> 200, owner |-> r]

\* C9: each request reads only the document it saved: while it has still to
\* read it the file at its path is its own document, what it read is its
\* own document, and the spreadsheet served to it is the one it wrote.
C9_Isolation ==
    \A r \in Requests :
        /\ req[r].pc = "extract" =>
              /\ disk[PathOf(req[r].secured)].kind = "pdf"
              /\ disk[PathOf(req[r].secured)].owner = r
        /\ req[r].readFrom \in {"-", r}
        /\ req[r].download.owner \in {"-", r}

====
